---- MODULE Spec2Model ----
(***************************************************************************)
(* The isolated execution engine (executor.run_analysis): a generated      *)
(* program is persisted, run as a child process under a wall-clock         *)
(* timeout, its output is parsed and the chart directory is scanned.       *)
(* Paths are sequences of name components; a name is a stem and an         *)
(* extension.  Text (stdout, stderr, messages) is a sequence of chunks.    *)
(***************************************************************************)
EXTENDS Integers, Sequences, FiniteSets, TLC

\* ------------------------------------------------------------------ bounds
MaxOut == 2       \* longest captured stdout, in chunks
MaxErr == 1       \* longest captured stderr, in chunks
MaxCalls == 2     \* run_analysis calls made by the caller in one behaviour
MaxLines == 2002  \* most lines after the header line of a CSV file
MaxBlank == 1     \* most blank lines among them
MaxCharts == 3    \* longest chart_paths handed to build_report
MaxCode == 4      \* longest program text handed to post_process_code, in chunks

\* ------------------------------------------------------------ path algebra
Nm(stem, ext) == [stem |-> stem, ext |-> ext]

OUTPUT_DIR == <<Nm("output", "")>>
CHARTS_DIR == OUTPUT_DIR \o <<Nm("charts", "")>>
ANALYSIS_SCRIPT == OUTPUT_DIR \o <<Nm("analysis_script", "py")>>

\* subprocess.run(..., cwd=str(OUTPUT_DIR)): the child's working directory
ChildCwd == OUTPUT_DIR

\* subprocess.run(..., timeout=60)
Timeout == 60

\* a relative path named by a process is resolved against that process's
\* working directory; the engine's own working directory is the root <<>>
Resolve(cwd, rel) == cwd \o rel

\* an absolute path starts at the root of the file system; os.path.join
\* semantics: it names the same file from every working directory
Root == Nm("/", "")
IsAbsolute(p) == p # <<>> /\ p[1] = Root
ResolveArg(cwd, p) == IF IsAbsolute(p) THEN p ELSE Resolve(cwd, p)

\* the working directory of the process that calls run_analysis
CallerCwd == <<>>

Parent(p) == SubSeq(p, 1, Len(p) - 1)
Last(p) == p[Len(p)]

\* ------------------------------------------------------------- file system
Absent == [kind |-> "absent", content |-> ""]
Dir == [kind |-> "dir", content |-> ""]
File(c) == [kind |-> "file", content |-> c]

\* names a child may create inside a chart directory
ChartFiles == {Nm("chart_1", "png")}
\* names found in a chart directory that earlier runs have used
OldChart == Nm("chart_2", "png")
OldNotes == Nm("notes", "txt")
SubDir == Nm("sub", "")
InnerFile == Nm("inner", "png")

NestedOutput == Resolve(ChildCwd, OUTPUT_DIR)
NestedScript == Resolve(ChildCwd, ANALYSIS_SCRIPT)

\* the code-generation prompt's rule for charts: plt.savefig("output/charts/chart_1.png"),
\* in an "output/charts/" directory the program creates if it doesn't exist
PromptChartRel == <<Nm("output", ""), Nm("charts", ""), Nm("chart_1", "png")>>
\* where that relative path lands for a program started in ChildCwd
PromptChartTarget == Resolve(ChildCwd, PromptChartRel)

\* the files pipeline.main and compiler.build_report write under output
PipelineFiles ==
    {Nm("stage0_profile", "json"), Nm("stage1_analysis_plan", "json"),
     Nm("stage2_analysis_script", "py"), Nm("stage3_results", "json"),
     Nm("stage3_error", "json"), Nm("stage4_narrative", "json"), Nm("report", "html")}

PathUniverse ==
    {OUTPUT_DIR, CHARTS_DIR, ANALYSIS_SCRIPT, NestedOutput, NestedScript,
     Parent(PromptChartTarget), PromptChartTarget,
     CHARTS_DIR \o <<SubDir>>, CHARTS_DIR \o <<SubDir, InnerFile>>}
    \cup {CHARTS_DIR \o <<f>> : f \in ChartFiles \cup {OldChart, OldNotes}}
    \cup {OUTPUT_DIR \o <<f>> : f \in PipelineFiles}

EmptyFS == [p \in PathUniverse |-> Absent]

\* program texts: two the caller may pass, one left behind by the environment
Codes == {"progA", "progB"}
StaleCode == "progOld"

\* the text of a program that writes charts/chart_1.png and then raises an
\* exception before printing anything; the other texts may do anything
ChartThenRaise == "progA"

\* file systems the engine may be started in
InitialFS ==
    { EmptyFS,
      [EmptyFS EXCEPT ![OUTPUT_DIR] = File("not a directory")],
      [EmptyFS EXCEPT ![OUTPUT_DIR] = Dir, ![ANALYSIS_SCRIPT] = Dir],
      [EmptyFS EXCEPT ![OUTPUT_DIR] = Dir, ![CHARTS_DIR] = Dir,
                      ![CHARTS_DIR \o <<OldChart>>] = File("old chart")],
      [EmptyFS EXCEPT ![OUTPUT_DIR] = Dir, ![NestedOutput] = Dir,
                      ![NestedScript] = File(StaleCode)],
      [EmptyFS EXCEPT ![OUTPUT_DIR] = Dir, ![NestedOutput] = Dir,
                      ![NestedScript] = File(StaleCode), ![CHARTS_DIR] = Dir,
                      ![CHARTS_DIR \o <<OldChart>>] = File("old chart"),
                      ![CHARTS_DIR \o <<OldNotes>>] = File("old notes"),
                      ![CHARTS_DIR \o <<SubDir>>] = Dir,
                      ![CHARTS_DIR \o <<SubDir, InnerFile>>] = File("old chart")] }

\* Path.mkdir(exist_ok=True): succeeds on an existing directory, creates a
\* missing one, raises FileExistsError when the path is a non-directory
MkdirRaises(f, p) == f[p].kind = "file"
\* a mkdir that also empties the directory it ensures
MkdirEmptied(f, p) ==
    [q \in PathUniverse |->
        IF q = p THEN Dir
        ELSE IF Len(q) > Len(p) /\ SubSeq(q, 1, Len(p)) = p THEN Absent
        ELSE f[q]]

Mkdir(f, p) == IF f[p].kind = "absent" THEN [f EXCEPT ![p] = Dir] ELSE f

\* open(path, "w"): raises when the path is a directory or its parent is not
OpenWRaises(f, p) == f[p].kind = "dir" \/ f[Parent(p)].kind # "dir"
\* a write that leaves an existing file's text in place
WriteFileKeepOld(f, p, c) == IF f[p].kind = "file" THEN f ELSE [f EXCEPT ![p] = File(c)]

\* mode "w" truncates: whatever the file held, it now holds c and nothing else
WriteFile(f, p, c) == [f EXCEPT ![p] = File(c)]

\* fnmatch of a name against "*.png"
MatchesPng(n) == n.ext = "png"

\* a scan that lists every entry of d, whatever its extension
GlobAnyExt(f, d) ==
    {p \in PathUniverse : /\ Len(p) = Len(d) + 1
                          /\ Parent(p) = d
                          /\ f[p].kind # "absent"}

\* Path.glob("*.png"): the entries directly inside d whose name matches
Glob(f, d) ==
    {p \in PathUniverse : /\ Len(p) = Len(d) + 1
                          /\ Parent(p) = d
                          /\ f[p].kind # "absent"
                          /\ MatchesPng(Last(p))}

\* -------------------------------------------------------------------- text
\* Captured output is a sequence of chunks.  " " is whitespace, "1" a digit,
\* "[" and "]" brackets, "{}" an empty JSON object, "DEEP" a balanced run of
\* brackets nested deeper than the interpreter's recursion limit (a valid
\* JSON array), "BAD" a byte sequence that is not valid in the locale encoding.
OutChunks == {" ", "1", "[", "]", "{}", "DEEP", "BAD"}
ErrChunks == {" ", "e"}

SeqsUpTo(S, n) == UNION {[1..k -> S] : k \in 0..n}

IsSpace(c) == c = " "

RECURSIVE LStrip(_)
LStrip(s) == IF s # <<>> /\ IsSpace(Head(s)) THEN LStrip(Tail(s)) ELSE s

RECURSIVE RStrip(_)
RStrip(s) ==
    IF s # <<>> /\ IsSpace(s[Len(s)]) THEN RStrip(SubSeq(s, 1, Len(s) - 1)) ELSE s

\* str.strip()
Strip(s) == RStrip(LStrip(s))

\* text=True: decoding the captured bytes raises UnicodeDecodeError on "BAD"
Undecodable(s) == \E i \in 1..Len(s) : s[i] = "BAD"

\* --------------------------------------------------------------- json.loads
\* json.decoder whitespace skip: first index >= i that is not whitespace
RECURSIVE SkipWs(_, _)
SkipWs(s, i) == IF i <= Len(s) /\ IsSpace(s[i]) THEN SkipWs(s, i + 1) ELSE i

\* end of the run of digits that starts at i
RECURSIVE DigitsEnd(_, _)
DigitsEnd(s, i) == IF i <= Len(s) /\ s[i] = "1" THEN DigitsEnd(s, i + 1) ELSE i

JOk(v, e) == [st |-> "ok", val |-> v, end |-> e]
JDecodeError == [st |-> "JSONDecodeError", val |-> <<>>, end |-> 0]
JRecursionError == [st |-> "RecursionError", val |-> <<>>, end |-> 0]

\* scanner: parse one value starting at index i.  The value is returned in
\* canonical form (its chunks without insignificant whitespace).
RECURSIVE ScanOnce(_, _)
ScanOnce(s, i) ==
    IF i > Len(s) THEN JDecodeError
    ELSE IF s[i] = "1" THEN JOk(SubSeq(s, i, DigitsEnd(s, i) - 1), DigitsEnd(s, i))
    ELSE IF s[i] = "{}" THEN JOk(<<"{}">>, i + 1)
    ELSE IF s[i] = "DEEP" THEN JRecursionError
    ELSE IF s[i] = "[" THEN
        LET j == SkipWs(s, i + 1) IN
        IF j <= Len(s) /\ s[j] = "]" THEN JOk(<<"[", "]">>, j + 1)
        ELSE LET r == ScanOnce(s, j) IN
             IF r.st # "ok" THEN r
             ELSE LET k == SkipWs(s, r.end) IN
                  IF k <= Len(s) /\ s[k] = "]"
                  THEN JOk(<<"[">> \o r.val \o <<"]">>, k + 1)
                  ELSE JDecodeError
    ELSE JDecodeError

\* JSONDecoder.decode: skip whitespace, scan one value, skip whitespace,
\* raise "Extra data" unless the end of the text is reached
JsonLoads(s) ==
    LET r == ScanOnce(s, SkipWs(s, 1)) IN
    IF r.st # "ok" THEN r
    ELSE IF SkipWs(s, r.end) # Len(s) + 1 THEN JDecodeError
    ELSE r

\* the JSON grammar itself, independent of how the decoder fails
RECURSIVE ValidFrom(_, _)
ValidFrom(s, i) ==
    IF i > Len(s) THEN 0
    ELSE IF s[i] = "1" THEN DigitsEnd(s, i)
    ELSE IF s[i] = "{}" THEN i + 1
    ELSE IF s[i] = "DEEP" THEN i + 1
    ELSE IF s[i] = "[" THEN
        LET j == SkipWs(s, i + 1) IN
        IF j <= Len(s) /\ s[j] = "]" THEN j + 1
        ELSE LET e == ValidFrom(s, j) IN
             IF e = 0 THEN 0
             ELSE LET k == SkipWs(s, e) IN
                  IF k <= Len(s) /\ s[k] = "]" THEN k + 1 ELSE 0
    ELSE 0

\* ------------------------------------------------------------ Python values
PyNone == [tag |-> "None", text |-> <<>>]
PyStr(t) == [tag |-> "str", text |-> t]
PyJson(v) == [tag |-> "json", text |-> v]
\* the dict {"raw_output": t}
PyRaw(t) == [tag |-> "raw_output", text |-> t]

RcText(rc) == CASE rc = 0 -> "0" [] rc = 1 -> "1" [] rc = 2 -> "2" [] OTHER -> "n"

\* f"Exit code: {process.returncode}"
ExitCodeMsg(rc) == <<"Exit code: ", RcText(rc)>>
TimeoutMsg == <<"Execution ", "timed out", " after 60 seconds">>
\* str(e) of the exceptions the try block can see
LaunchErrorMsg == <<"[Errno 2] No such file or directory: ", "sys.executable">>
DecodeErrorMsg == <<"'utf-8' codec can't decode byte">>
RecursionErrorMsg == <<"maximum recursion depth exceeded while decoding a JSON array">>
\* the interpreter's own diagnostic when its script argument does not exist
CantOpenMsg == <<"can't open file">>

Put(d, k, v) == [x \in DOMAIN d \cup {k} |-> IF x = k THEN v ELSE d[x]]

\* ------------------------------------------------------------------- state
VARIABLES
    fs,           \* the file system under the engine's working directory
    exeOK,        \* whether sys.executable names a launchable interpreter
    pc,           \* position of the caller / of run_analysis
    calls,        \* run_analysis calls started so far
    code_string,  \* argument of the current call
    csv_path,     \* argument of the current call
    result,       \* the local dict of the current call (a function on its keys)
    child,        \* the child process of the current call
    deadline,     \* TRUE once Timeout seconds have passed since the launch
    launches,     \* subprocess.run invocations made by the current call
    runs,         \* the orchestrator runs (pipeline.main, app.run_pipeline)
    fn            \* the latest call of a function of the pipeline's libraries

vars == <<fs, exeOK, pc, calls, code_string, csv_path, result, child, deadline,
          launches, runs, fn>>

CsvPaths == {<<Nm("data", "csv")>>}

\* no library function has been called
NoCall == [op |-> "none", in |-> <<>>, out |-> <<>>, done |-> FALSE]

NoChild == [state |-> "none", script |-> <<>>, dataset |-> <<>>, prog |-> "none",
            rc |-> 0, out |-> <<>>, err |-> <<>>]

\* exit statuses a generated program may end with
ExitCodes == {0, 1}
\* exit status of the interpreter when it cannot open its script
CantOpenRc == 2

Init ==
    /\ fs \in InitialFS
    /\ exeOK \in BOOLEAN
    /\ pc = "idle"
    /\ calls = 0
    /\ code_string = "none"
    /\ csv_path = <<>>
    /\ result = <<>>
    /\ child = NoChild
    /\ deadline = FALSE
    /\ launches = 0
    /\ runs = <<>>
    /\ fn = NoCall

\* the caller invokes run_analysis(code_string, csv_path)
Call ==
    /\ pc \in {"idle", "returned", "raised"}
    /\ calls < MaxCalls
    /\ \E c \in Codes, p \in CsvPaths :
          /\ code_string' = c
          /\ csv_path' = p
    /\ calls' = calls + 1
    /\ pc' = "ensure"
    /\ child' = NoChild
    /\ deadline' = FALSE
    /\ result' = <<>>
    /\ UNCHANGED <<fs, exeOK>>
    /\ launches' = 0
    /\ UNCHANGED <<runs, fn>>

\* ensure_directories(): both mkdir calls; an exception leaves run_analysis
ensure_directories ==
    /\ pc = "ensure"
    /\ IF MkdirRaises(fs, OUTPUT_DIR)
       THEN /\ pc' = "raised"
            /\ fs' = fs
       ELSE LET f1 == Mkdir(fs, OUTPUT_DIR) IN
            IF MkdirRaises(f1, CHARTS_DIR)
            THEN /\ pc' = "raised"
                 /\ fs' = f1
            ELSE /\ pc' = "write"
                 /\ fs' = Mkdir(f1, CHARTS_DIR)
    /\ UNCHANGED <<exeOK, calls, code_string, csv_path, result, child, deadline>>
    /\ UNCHANGED <<launches, runs, fn>>

\* result = {"success": False, "results": None, "chart_paths": [], "errors": None}
InitialResult ==
    [success |-> FALSE, results |-> PyNone, chart_paths |-> <<>>, errors |-> PyNone]

\* with open(ANALYSIS_SCRIPT, "w") as f: f.write(code_string); then the
\* fresh result dict.  An exception from open leaves run_analysis.
WriteScript ==
    /\ pc = "write"
    /\ IF OpenWRaises(fs, ANALYSIS_SCRIPT)
       THEN /\ pc' = "raised"
            /\ UNCHANGED <<fs, result>>
       ELSE /\ fs' = WriteFile(fs, ANALYSIS_SCRIPT, code_string)
            /\ result' = InitialResult
            /\ pc' = "launch"
    /\ UNCHANGED <<exeOK, calls, code_string, csv_path, child, deadline>>
    /\ UNCHANGED <<launches, runs, fn>>

\* the argv the engine hands to Popen after sys.executable
ScriptArg == ANALYSIS_SCRIPT

\* what the child interpreter opens: its script argument, resolved against
\* the working directory it was started in
ChildScriptPath == Resolve(ChildCwd, ScriptArg)

\* the file the child's positional argument names: csv_path is handed over
\* as the caller wrote it and the child resolves it from its own directory
ChildDataset(path) == ResolveArg(ChildCwd, path)

\* subprocess.run: Popen succeeds and the child starts running
LaunchOK ==
    /\ pc = "launch"
    /\ exeOK
    /\ child' = [NoChild EXCEPT
                   !.state = "running",
                   !.script = ChildScriptPath,
                   !.dataset = ChildDataset(csv_path),
                   !.prog = IF fs[ChildScriptPath].kind = "file"
                            THEN fs[ChildScriptPath].content ELSE "none"]
    /\ deadline' = FALSE
    /\ pc' = "wait"
    /\ UNCHANGED <<fs, exeOK, calls, code_string, csv_path, result>>
    /\ launches' = launches + 1
    /\ UNCHANGED <<runs, fn>>

\* a handler that swallows the exception without recording it
OnExceptionDropped(res, msg) == res

\* except Exception as e: result["errors"] = str(e)
OnException(res, msg) == [res EXCEPT !.errors = PyStr(msg)]

\* list(...): every order in which the directory scan may yield a set
Orders(S) ==
    {q \in [1..Cardinality(S) -> S] : \A i, j \in 1..Cardinality(S) : q[i] = q[j] => i = j}

\* lines 56-59, reached from every branch of the try statement:
\* chart_paths = list(CHARTS_DIR.glob("*.png")); return result
ScanAndReturn(res) ==
    /\ \E q \in Orders(Glob(fs, CHARTS_DIR)) :
          result' = [res EXCEPT !.chart_paths = q]
    /\ pc' = "returned"

\* subprocess.run: Popen raises (the interpreter cannot be executed)
LaunchFail ==
    /\ pc = "launch"
    /\ ~exeOK
    /\ ScanAndReturn(OnException(result, LaunchErrorMsg))
    /\ UNCHANGED <<fs, exeOK, calls, code_string, csv_path, child, deadline>>
    /\ launches' = launches + 1
    /\ UNCHANGED <<runs, fn>>

\* ------------------------------------------------------- the child process
\* the chart directory as a program started in ChildCwd names it
ChildChartsRel == <<Nm("charts", "")>>

\* the running program writes a file into its chart directory
ChildWrite ==
    /\ child.state = "running"
    /\ child.prog # "none"
    /\ \E f \in ChartFiles :
          LET target == Resolve(ChildCwd, ChildChartsRel \o <<f>>) IN
          /\ fs[Parent(target)].kind = "dir"
          /\ fs' = WriteFile(fs, target, "chart")
    /\ UNCHANGED <<exeOK, pc, calls, code_string, csv_path, result, child, deadline>>
    /\ UNCHANGED <<launches, runs, fn>>

\* how a program can end: an uncaught exception ends the interpreter with
\* status 1, a traceback on stderr and nothing more on stdout
MayExitWith(prog, rc, out, err) ==
    prog = ChartThenRaise =>
        /\ fs[Resolve(ChildCwd, ChildChartsRel \o <<Nm("chart_1", "png")>>)].kind = "file"
        /\ rc = 1
        /\ out = <<>>
        /\ Strip(err) # <<>>

\* the running program ends on its own within the timeout, with any status
\* and any output its text allows
ChildExit ==
    /\ child.state = "running"
    /\ child.prog # "none"
    /\ ~deadline
    /\ \E rc \in ExitCodes, out \in SeqsUpTo(OutChunks, MaxOut),
          err \in SeqsUpTo(ErrChunks, MaxErr) :
          /\ MayExitWith(child.prog, rc, out, err)
          /\ child' = [child EXCEPT !.state = "exited", !.rc = rc, !.out = out, !.err = err]
    /\ UNCHANGED <<fs, exeOK, pc, calls, code_string, csv_path, result, deadline>>
    /\ UNCHANGED <<launches, runs, fn>>

\* the running program ends on its own after the timeout has elapsed and
\* before the engine has killed it; its status and output are never read
ChildExitLate ==
    /\ child.state = "running"
    /\ child.prog # "none"
    /\ deadline
    /\ child' = [child EXCEPT !.state = "exited"]
    /\ UNCHANGED <<fs, exeOK, pc, calls, code_string, csv_path, result, deadline>>
    /\ UNCHANGED <<launches, runs, fn>>

\* the interpreter finds no file at its script argument and exits
ChildCantOpen ==
    /\ child.state = "running"
    /\ child.prog = "none"
    /\ child' = [child EXCEPT !.state = "exited", !.rc = CantOpenRc,
                              !.out = <<>>, !.err = CantOpenMsg]
    /\ UNCHANGED <<fs, exeOK, pc, calls, code_string, csv_path, result, deadline>>
    /\ UNCHANGED <<launches, runs, fn>>

\* Timeout seconds pass while subprocess.run waits in communicate() and the
\* child is still running
DeadlinePasses ==
    /\ pc = "wait"
    /\ child.state = "running"
    /\ ~deadline
    /\ deadline' = TRUE
    /\ UNCHANGED <<fs, exeOK, pc, calls, code_string, csv_path, result, child>>
    /\ UNCHANGED <<launches, runs, fn>>

\* ------------------------------------------------- after the child ended
\* the same choice made on the unstripped stderr
ErrorsOfUnstripped(rc, err) == IF err # <<>> THEN err ELSE ExitCodeMsg(rc)

\* result["errors"] = process.stderr.strip() or f"Exit code: {returncode}"
ErrorsOf(rc, err) == IF Strip(err) # <<>> THEN Strip(err) ELSE ExitCodeMsg(rc)

\* json.loads on every text a child can print, tabulated
JsonLoadsOf == [s \in SeqsUpTo(OutChunks, MaxOut) |-> JsonLoads(s)]

\* lines 38-49 and the handlers they can reach, for a child that ended with
\* status rc and decodable output out, err
CompletedResult(res, rc, out, err) ==
    LET r1 == Put(Put(Put(res, "stdout", out), "stderr", err), "return_code", rc) IN
    IF rc = 0
    THEN LET r2 == [r1 EXCEPT !.success = TRUE]
             j == JsonLoadsOf[Strip(out)] IN
         IF j.st = "ok" THEN [r2 EXCEPT !.results = PyJson(j.val)]
         ELSE IF j.st = "JSONDecodeError" THEN [r2 EXCEPT !.results = PyRaw(Strip(out))]
         ELSE OnException(r2, RecursionErrorMsg)
    ELSE [r1 EXCEPT !.errors = PyStr(ErrorsOf(rc, err))]

\* communicate() returns within the timeout for an ended child; text
\* decoding may raise
Collect ==
    /\ pc = "wait"
    /\ child.state = "exited"
    /\ ~deadline
    /\ ScanAndReturn(IF Undecodable(child.out) \/ Undecodable(child.err)
                     THEN OnException(result, DecodeErrorMsg)
                     ELSE CompletedResult(result, child.rc, child.out, child.err))
    /\ UNCHANGED <<fs, exeOK, calls, code_string, csv_path, child, deadline>>
    /\ UNCHANGED <<launches, runs, fn>>

\* a timeout handler that does not kill the child
NotKilled(c) == c

\* state of the child after subprocess.run's timeout handler:
\* process.kill(); process.wait(); raise.  A child that ended on its own
\* in the meantime is only reaped.
Killed(c) == IF c.state = "running" THEN [c EXCEPT !.state = "killed"] ELSE c

\* a timeout handler that goes back to waiting for the child
TimeoutWaitAgain ==
    /\ pc = "wait"
    /\ deadline
    /\ deadline' = FALSE
    /\ UNCHANGED <<fs, exeOK, pc, calls, code_string, csv_path, result, child>>
    /\ UNCHANGED <<launches, runs, fn>>

\* a timeout handler that kills the child and runs the program again
TimeoutRelaunch ==
    /\ pc = "wait"
    /\ deadline
    /\ child' = Killed(child)
    /\ pc' = "launch"
    /\ UNCHANGED <<fs, exeOK, calls, code_string, csv_path, result, deadline>>
    /\ UNCHANGED <<launches, runs, fn>>

\* communicate() finds the timeout elapsed; except subprocess.TimeoutExpired
TimeoutExpired ==
    /\ pc = "wait"
    /\ deadline
    /\ child' = Killed(child)
    /\ ScanAndReturn([result EXCEPT !.errors = PyStr(TimeoutMsg)])
    /\ UNCHANGED <<fs, exeOK, calls, code_string, csv_path, deadline>>
    /\ UNCHANGED <<launches, runs, fn>>

EngineStep ==
    \/ ensure_directories
    \/ WriteScript
    \/ LaunchOK
    \/ LaunchFail
    \/ Collect
    \/ TimeoutExpired

ChildStep ==
    \/ ChildWrite
    \/ ChildExit
    \/ ChildExitLate
    \/ ChildCantOpen

Next ==
    \/ Call
    \/ EngineStep
    \/ ChildStep
    \/ DeadlinePasses

Spec == Init /\ [][Next]_vars

\* the engine's own steps are taken when they can be, and time passes;
\* nothing is assumed about the child
LiveSpec == Spec /\ WF_vars(EngineStep) /\ WF_vars(DeadlinePasses)

\* ============================================================ the gateway
\* gemini_client.analyze_data / narrate_results and groq_client.generate_code:
\* each tries its providers in a fixed order.  An exception is its type and
\* its message, a sequence of chunks.
PyError(type, text) == [type |-> type, text |-> text]
NoError == PyError("none", <<>>)

\* what a provider function can raise
ProviderErrors ==
    { PyError("Exception", <<"429", " Too Many Requests">>),
      PyError("Exception", <<"RESOURCE_EXHAUSTED">>),
      PyError("Exception", <<"resource_exhausted">>),
      PyError("Exception", <<"Quota", " exceeded">>),
      PyError("Exception", <<"rate_limit", " reached">>),
      PyError("ValueError", <<"GROQ_API_KEY ", "not found", " in .env file">>),
      PyError("Exception", <<"Invalid", " API key">>),
      PyError("Exception", <<"authentication", " failed">>),
      PyError("Exception", <<"Connection reset">>),
      PyError("ImportError", <<"No module named">>) }

\* str.lower() of a chunk
Lower(c) ==
    CASE c = "Quota" -> "quota"
      [] c = "Invalid" -> "invalid"
      [] c = "RESOURCE_EXHAUSTED" -> "resource_exhausted"
      [] OTHER -> c

\* needle in error_str, and needle in error_str.lower()
Has(text, needle) == \E i \in 1..Len(text) : text[i] = needle
HasLower(text, needle) == \E i \in 1..Len(text) : Lower(text[i]) = needle

\* the outcome of one provider call: a value (a text, a sequence of chunks)
\* or an exception
Returns(v) == [ok |-> TRUE, val |-> v, err |-> NoError]
Raises(e) == [ok |-> FALSE, val |-> <<>>, err |-> e]
ProviderOutcomes(v) == {Returns(v)} \cup {Raises(e) : e \in ProviderErrors}

\* the outcome of a gateway operation: the providers it called, in order,
\* and the value it returned or the exception it raised
GwDone(called, v) == [called |-> called, raised |-> FALSE, val |-> v, err |-> NoError]
GwRaise(called, e) == [called |-> called, raised |-> TRUE, val |-> <<>>, err |-> e]
NoGateway == [called |-> <<>>, raised |-> FALSE, val |-> <<>>, err |-> NoError]

GeminiProviders == <<"Gemini", "Groq">>
\* the apis list with its two entries in the other order
CodeProvidersReversed == <<"Cerebras", "Groq">>

CodeProviders == <<"Groq", "Cerebras">>

\* a test that also takes the word quota, in any case, for a quota error
QuotaExceededAnyCase(e) ==
    Has(e.text, "RESOURCE_EXHAUSTED") \/ Has(e.text, "429") \/ HasLower(e.text, "quota")

\* if "RESOURCE_EXHAUSTED" in error_str or "429" in error_str
QuotaExceeded(e) == Has(e.text, "RESOURCE_EXHAUSTED") \/ Has(e.text, "429")

\* analyze_data and narrate_results: Gemini, then Groq when Gemini's error
\* is a quota error; o[i] is what provider i does if it is called
GeminiWithFallback(o) ==
    IF o[1].ok THEN GwDone(<<"Gemini">>, o[1].val)
    ELSE IF QuotaExceeded(o[1].err)
         THEN IF o[2].ok THEN GwDone(GeminiProviders, o[2].val)
              ELSE GwRaise(GeminiProviders, o[2].err)
         ELSE GwRaise(<<"Gemini">>, o[1].err)

analyze_data(o) == GeminiWithFallback(o)
narrate_results(o) == GeminiWithFallback(o)

\* the two tests of generate_code's handler that continue with the next api
RetryableQuota(e) ==
    \/ Has(e.text, "RESOURCE_EXHAUSTED")
    \/ Has(e.text, "429")
    \/ HasLower(e.text, "quota")
    \/ HasLower(e.text, "rate_limit")

\* the second test made on the message as raised, without lower()
RetryableConfigAsRaised(e) ==
    \/ Has(e.text, "not found")
    \/ Has(e.text, "invalid")
    \/ Has(e.text, "authentication")

RetryableConfig(e) ==
    \/ HasLower(e.text, "not found")
    \/ HasLower(e.text, "invalid")
    \/ HasLower(e.text, "authentication")

\* raise ValueError(f"All APIs failed. Last error: {str(last_error)}")
AllApisFailed(last) == PyError("ValueError", <<"All APIs failed. Last error: ">> \o last.text)

\* f.write(text), json.dump(value, f): the characters a text puts in a file
RECURSIVE Flatten(_)
Flatten(t) == IF t = <<>> THEN "" ELSE Head(t) \o Flatten(Tail(t))

\* A program text as a provider returns it is a sequence of chunks; "\n" is
\* the line break.
NewLine == "\n"

\* index of the first line break of t, or 0
RECURSIVE FirstBreak(_, _)
FirstBreak(t, i) ==
    IF i > Len(t) THEN 0 ELSE IF t[i] = NewLine THEN i ELSE FirstBreak(t, i + 1)

\* code.split('\n'): the lines of a text, at least one
RECURSIVE Split(_)
Split(t) ==
    LET i == FirstBreak(t, 1) IN
    IF i = 0 THEN <<t>>
    ELSE <<SubSeq(t, 1, i - 1)>> \o Split(SubSeq(t, i + 1, Len(t)))

\* '\n'.join(lines)
RECURSIVE Join(_)
Join(lines) ==
    IF lines = <<>> THEN <<>>
    ELSE IF Len(lines) = 1 THEN lines[1]
    ELSE lines[1] \o <<NewLine>> \o Join(Tail(lines))

\* a test that only finds a line that is the call and nothing else
IsShowStatement(line) == line = <<"plt.show()">>

\* 'plt.show()' in line
ShowsPlot(line) == Has(line, "plt.show()")

\* post_process_code: the text without the lines that contain plt.show()
post_process_code(code) ==
    Join(SelectSeq(Split(code), LAMBDA line : ~ShowsPlot(line)))

\* generate_code: the loop over apis from position i, with last_error
RECURSIVE GenerateFrom(_, _, _)
GenerateFrom(o, i, last) ==
    IF i > Len(CodeProviders) THEN GwRaise(CodeProviders, AllApisFailed(last))
    ELSE IF o[i].ok THEN GwDone(SubSeq(CodeProviders, 1, i), post_process_code(o[i].val))
    ELSE IF o[i].err.type = "ImportError" THEN GenerateFrom(o, i + 1, o[i].err)
    ELSE IF RetryableQuota(o[i].err) \/ RetryableConfig(o[i].err)
         THEN GenerateFrom(o, i + 1, o[i].err)
    ELSE GwRaise(SubSeq(CodeProviders, 1, i), o[i].err)

generate_code(o) == GenerateFrom(o, 1, NoError)

\* ====================================================== the orchestrators
\* pipeline.main (a command-line process) and app.run_pipeline (one call per
\* user session of the web application).  All runs share the engine's
\* working directory.
Runs == {1, 2}
Kinds == {"main", "app"}

\* the stages in the order the orchestrators name them
Stages == <<"profile", "plan", "generate", "execute", "narrate", "compile">>

\* a value held by a local variable of a run: the stage that produced it
Made(stage, r) == [by |-> stage, run |-> r]
NotSet == Made("nobody", 0)

\* what the code-generation provider returns in run r
RawProgramOf(r) == IF r = 1 THEN <<"progA", NewLine, "plt.show()">> ELSE <<"progB">>
ProgramOf(r) == Flatten(post_process_code(RawProgramOf(r)))

\* the chart a program writes tells which run's child wrote it
ChartBy(r) == IF r = 1 THEN "chart of run 1" ELSE "chart of run 2"

\* the dataset paths a caller passes: pipeline.main takes sys.argv[1] as
\* typed, relative or absolute; the web application passes a file of a
\* temporary directory, which is absolute
RelativeCsv == <<Nm("data", "csv")>>
AbsoluteCsv == <<Root, Nm("tmp", ""), Nm("data", "csv")>>
CsvArgs(kind) == IF kind = "main" THEN {RelativeCsv, AbsoluteCsv} ELSE {AbsoluteCsv}

NewRun(kind, csv) ==
    [kind |-> kind,
     csv_path |-> csv,             \* the argument of main / run_pipeline
     data_file |-> <<>>,           \* the file that was checked and profiled
     pc |-> "profile",
     log |-> <<>>,                 \* the stage calls made, with their arguments
     data_profile |-> NotSet,
     analysis_plan |-> NotSet,
     code_string |-> NotSet,
     code_text |-> <<>>,
     execution_result |-> <<>>,
     executed |-> NotSet,
     narrative |-> NotSet,
     gw |-> NoGateway,             \* the gateway call of the latest stage
     child |-> NoChild,
     workdir |-> <<>>,             \* the directory run_analysis works in
     ended |-> "no",               \* "exit 0", "exit 1", "returned"
     success |-> FALSE,            \* the "success" field of the returned dict
     error |-> NoError]

Logged(run, stage, args) ==
    [run EXCEPT !.log = Append(@, [stage |-> stage, args |-> args])]

\* pipeline.main: except Exception -> sys.exit(1);
\* app.run_pipeline: except Exception -> return {"success": False, "error": str(e)}
Fail(run, e) ==
    [run EXCEPT !.pc = "end",
                !.ended = IF run.kind = "main" THEN "exit 1" ELSE "returned",
                !.success = FALSE,
                !.error = e]

IOError == PyError("OSError", <<"[Errno] ", "output">>)

StageFile(stem, ext) == OUTPUT_DIR \o <<Nm(stem, ext)>>

\* save_partial_results: mkdir(exist_ok=True), then open(filepath, "w")
SaveRaises(f, path) ==
    MkdirRaises(f, OUTPUT_DIR) \/ OpenWRaises(Mkdir(f, OUTPUT_DIR), path)
Save(f, path, data) == WriteFile(Mkdir(f, OUTPUT_DIR), path, data)

\* an orchestrator that keeps every stage's output in memory only
KeptInMemory(r, run, path, data, next, mk) ==
    /\ runs' = [runs EXCEPT ![r] = [run EXCEPT !.pc = next]]
    /\ fs' = fs

\* a stage of run r has returned: pipeline.main writes the stage's output
\* to its file (after a mkdir when mk) and fails if it cannot;
\* app.run_pipeline keeps the output in memory only
Saved(r, run, path, data, next, mk) ==
    IF run.kind = "main"
    THEN IF (mk /\ SaveRaises(fs, path)) \/ (~mk /\ OpenWRaises(fs, path))
         THEN /\ runs' = [runs EXCEPT ![r] = Fail(run, IOError)]
              /\ fs' = fs
         ELSE /\ runs' = [runs EXCEPT ![r] = [run EXCEPT !.pc = next]]
              /\ fs' = IF mk THEN Save(fs, path, data) ELSE WriteFile(fs, path, data)
    ELSE /\ runs' = [runs EXCEPT ![r] = [run EXCEPT !.pc = next]]
         /\ fs' = fs

engineVars == <<pc, calls, code_string, csv_path, result, child, deadline, launches>>

\* profile_csv raises when the file is missing or cannot be parsed
ProfileError == PyError("Exception", <<"profile_csv">>)

\* stage 0.  pipeline.main first checks that the file exists and exits
\* with status 1 before any stage when it does not.
Profile(r) ==
    /\ runs[r].pc = "profile"
    /\ \E found \in BOOLEAN, ok \in BOOLEAN :
          LET run == runs[r]
              called == Logged(run, "profile", <<Made("caller", r)>>) IN
          IF run.kind = "main" /\ ~found
          THEN /\ runs' = [runs EXCEPT ![r] = [run EXCEPT !.pc = "end", !.ended = "exit 1"]]
               /\ fs' = fs
          ELSE IF ~found \/ ~ok
          THEN /\ runs' = [runs EXCEPT ![r] = Fail(called, ProfileError)]
               /\ fs' = fs
          ELSE Saved(r, [called EXCEPT !.data_profile = Made("profile", r),
                                       !.data_file = ResolveArg(CallerCwd, run.csv_path)],
                     StageFile("stage0_profile", "json"), "profile", "plan", TRUE)
    /\ UNCHANGED exeOK
    /\ UNCHANGED <<engineVars, fn>>

PlanArgs(run) == <<run.data_profile>>

\* stage 1: analysis_plan = analyze_data(data_profile)
Plan(r) ==
    /\ runs[r].pc = "plan"
    /\ \E o1 \in ProviderOutcomes(<<"plan">>), o2 \in ProviderOutcomes(<<"plan">>) :
          LET run == runs[r]
              g == analyze_data(<<o1, o2>>)
              called == [Logged(run, "plan", PlanArgs(run)) EXCEPT !.gw = g] IN
          IF g.raised
          THEN /\ runs' = [runs EXCEPT ![r] = Fail(called, g.err)]
               /\ fs' = fs
          ELSE Saved(r, [called EXCEPT !.analysis_plan = Made("plan", r)],
                     StageFile("stage1_analysis_plan", "json"), Flatten(g.val), "generate", TRUE)
    /\ UNCHANGED exeOK
    /\ UNCHANGED <<engineVars, fn>>

\* generate_code called without the plan
GenerateArgsNoPlan(run) == <<run.data_profile>>

GenerateArgs(run) == <<run.data_profile, run.analysis_plan>>

\* stage 2: code_string = generate_code(data_profile, analysis_plan);
\* pipeline.main writes it to output/stage2_analysis_script.py
Generate(r) ==
    /\ runs[r].pc = "generate"
    /\ \E o1 \in ProviderOutcomes(RawProgramOf(r)), o2 \in ProviderOutcomes(RawProgramOf(r)) :
          LET run == runs[r]
              g == generate_code(<<o1, o2>>)
              called == [Logged(run, "generate", GenerateArgs(run)) EXCEPT !.gw = g] IN
          IF g.raised
          THEN /\ runs' = [runs EXCEPT ![r] = Fail(called, g.err)]
               /\ fs' = fs
          ELSE Saved(r, [called EXCEPT !.code_string = Made("generate", r),
                                       !.code_text = g.val],
                     StageFile("stage2_analysis_script", "py"), Flatten(g.val), "execute", FALSE)
    /\ UNCHANGED exeOK
    /\ UNCHANGED <<engineVars, fn>>

ExecuteError(res) == PyError("execution", res.errors.text)

\* an orchestrator that goes on to the narrative whatever the result says
AfterExecuteIgnoringFailure(r, run, res) ==
    Saved(r, [run EXCEPT !.execution_result = res, !.executed = Made("execute", r)],
          StageFile("stage3_results", "json"), "results", "narrate", TRUE)

\* run_analysis has returned res.  pipeline.main lines 70-76: on success
\* save the results and go on, else save the error and sys.exit(1);
\* app.run_pipeline lines 307-308: on failure return the failure dict.
AfterExecute(r, run, res) ==
    LET got == [run EXCEPT !.execution_result = res, !.executed = Made("execute", r)]
        stop == [got EXCEPT !.pc = "end", !.success = FALSE, !.error = ExecuteError(res)] IN
    IF res.success
    THEN Saved(r, got, StageFile("stage3_results", "json"), "results", "narrate", TRUE)
    ELSE IF run.kind = "main"
    THEN IF SaveRaises(fs, StageFile("stage3_error", "json"))
         THEN /\ runs' = [runs EXCEPT ![r] = Fail(got, IOError)]
              /\ fs' = fs
         ELSE /\ runs' = [runs EXCEPT ![r] = [stop EXCEPT !.ended = "exit 1"]]
              /\ fs' = Save(fs, StageFile("stage3_error", "json"), "error")
    ELSE /\ runs' = [runs EXCEPT ![r] = [stop EXCEPT !.ended = "returned"]]
         /\ fs' = fs

ExecuteArgs(run, r) == <<run.code_string, Made("caller", r)>>

\* the working directory run_analysis uses for the run: the module constant
WorkDirOf(r) == OUTPUT_DIR

\* stage 3 begins: run_analysis(code_string, csv_path) creates its
\* directories, writes the program and builds its fresh result; an
\* exception of these steps reaches the orchestrator's handler
ExecuteEnter(r) ==
    /\ runs[r].pc = "execute"
    /\ LET run == runs[r]
           called == [Logged(run, "execute", ExecuteArgs(run, r)) EXCEPT
                         !.gw = NoGateway, !.workdir = WorkDirOf(r)]
           f1 == Mkdir(fs, OUTPUT_DIR)
           f2 == Mkdir(f1, CHARTS_DIR) IN
       IF MkdirRaises(fs, OUTPUT_DIR)
       THEN /\ runs' = [runs EXCEPT ![r] = Fail(called, IOError)]
            /\ fs' = fs
       ELSE IF MkdirRaises(f1, CHARTS_DIR) \/ OpenWRaises(f2, ANALYSIS_SCRIPT)
       THEN /\ runs' = [runs EXCEPT ![r] = Fail(called, IOError)]
            /\ fs' = IF MkdirRaises(f1, CHARTS_DIR) THEN f1 ELSE f2
       ELSE /\ runs' = [runs EXCEPT ![r] =
                          [called EXCEPT !.pc = "ra_launch", !.execution_result = InitialResult]]
            /\ fs' = WriteFile(f2, ANALYSIS_SCRIPT, Flatten(run.code_text))
    /\ UNCHANGED exeOK
    /\ UNCHANGED <<engineVars, fn>>

\* lines 56-59 for a run: the result with the scan of the chart directory
Scanned(res, q) == [res EXCEPT !.chart_paths = q]

\* subprocess.run in a run: the child starts, or Popen raises and
\* run_analysis returns the failure
RaLaunch(r) ==
    /\ runs[r].pc = "ra_launch"
    /\ LET run == runs[r] IN
       IF exeOK
       THEN /\ runs' = [runs EXCEPT ![r] =
                 [run EXCEPT !.pc = "ra_wait",
                             !.child = [NoChild EXCEPT
                                 !.state = "running",
                                 !.script = ChildScriptPath,
                                 !.dataset = ChildDataset(run.csv_path),
                                 !.prog = IF fs[ChildScriptPath].kind = "file"
                                          THEN fs[ChildScriptPath].content ELSE "none"]]]
            /\ fs' = fs
       ELSE \E q \in Orders(Glob(fs, CHARTS_DIR)) :
               AfterExecute(r, run, Scanned(OnException(run.execution_result, LaunchErrorMsg), q))
    /\ UNCHANGED exeOK
    /\ UNCHANGED <<engineVars, fn>>

\* the child of a run writes its chart
RaChildWrite(r) ==
    /\ runs[r].child.state = "running"
    /\ runs[r].child.prog # "none"
    /\ LET target == Resolve(ChildCwd, ChildChartsRel \o <<Nm("chart_1", "png")>>) IN
       /\ fs[Parent(target)].kind = "dir"
       /\ fs[target] # File(ChartBy(r))
       /\ fs' = WriteFile(fs, target, ChartBy(r))
    /\ UNCHANGED <<runs, exeOK>>
    /\ UNCHANGED <<engineVars, fn>>

\* what a chart saved under the prompt's rule holds
PromptedChart == "chart saved as the prompt says"

\* the child of a run follows the prompt: it creates "output/charts" if it
\* doesn't exist and saves "output/charts/chart_1.png", both named from
\* its working directory
RaChildSavesAsPrompted(r) ==
    /\ runs[r].child.state = "running"
    /\ runs[r].child.prog # "none"
    /\ LET dir == Parent(PromptChartTarget) IN
       /\ fs[Parent(dir)].kind = "dir"
       /\ fs[dir].kind # "file"
       /\ fs[PromptChartTarget] # File(PromptedChart)
       /\ fs' = WriteFile(Mkdir(fs, dir), PromptChartTarget, PromptedChart)
    /\ UNCHANGED <<runs, exeOK>>
    /\ UNCHANGED <<engineVars, fn>>

\* the child of a run ends: a program with a status, or the interpreter
\* that found no script
RaChildExit(r) ==
    /\ runs[r].child.state = "running"
    /\ \E rc \in ExitCodes :
          LET c == runs[r].child IN
          runs' = [runs EXCEPT ![r].child =
                     IF c.prog = "none"
                     THEN [c EXCEPT !.state = "exited", !.rc = CantOpenRc,
                                    !.out = <<>>, !.err = CantOpenMsg]
                     ELSE [c EXCEPT !.state = "exited", !.rc = rc,
                                    !.out = <<"{}">>, !.err = <<"e">>]]
    /\ UNCHANGED <<fs, exeOK>>
    /\ UNCHANGED <<engineVars, fn>>

\* communicate() returns for the ended child of a run; run_analysis returns
RaCollect(r) ==
    /\ runs[r].pc = "ra_wait"
    /\ runs[r].child.state = "exited"
    /\ LET run == runs[r]
           c == run.child IN
       \E q \in Orders(Glob(fs, CHARTS_DIR)) :
           AfterExecute(r, run,
               Scanned(CompletedResult(run.execution_result, c.rc, c.out, c.err), q))
    /\ UNCHANGED exeOK
    /\ UNCHANGED <<engineVars, fn>>

\* the timeout of a run elapses with its child still running: the child is
\* killed and run_analysis returns the timeout failure
RaTimeout(r) ==
    /\ runs[r].pc = "ra_wait"
    /\ runs[r].child.state = "running"
    /\ LET run == [runs[r] EXCEPT !.child = Killed(@)] IN
       \E q \in Orders(Glob(fs, CHARTS_DIR)) :
           AfterExecute(r, run,
               Scanned([run.execution_result EXCEPT !.errors = PyStr(TimeoutMsg)], q))
    /\ UNCHANGED exeOK
    /\ UNCHANGED <<engineVars, fn>>

NarrateArgs(run) == <<run.executed>>

\* stage 4: narrative = narrate_results(execution_result.get("results", {}))
Narrate(r) ==
    /\ runs[r].pc = "narrate"
    /\ \E o1 \in ProviderOutcomes(<<"narrative">>), o2 \in ProviderOutcomes(<<"narrative">>) :
          LET run == runs[r]
              g == narrate_results(<<o1, o2>>)
              called == [Logged(run, "narrate", NarrateArgs(run)) EXCEPT !.gw = g] IN
          IF g.raised
          THEN /\ runs' = [runs EXCEPT ![r] = Fail(called, g.err)]
               /\ fs' = fs
          ELSE Saved(r, [called EXCEPT !.narrative = Made("narrate", r)],
                     StageFile("stage4_narrative", "json"), Flatten(g.val), "compile", TRUE)
    /\ UNCHANGED exeOK
    /\ UNCHANGED <<engineVars, fn>>

CompileArgs(run) == <<run.narrative, run.executed, run.data_profile>>
CompileError == PyError("Exception", <<"build_report">>)

\* stage 5: build_report(narrative, chart_paths, data_profile) renders the
\* template, reads every chart and writes output/report.html
Compile(r) ==
    /\ runs[r].pc = "compile"
    /\ \E ok \in BOOLEAN :
          LET run == runs[r]
              called == [Logged(run, "compile", CompileArgs(run)) EXCEPT !.gw = NoGateway]
              report == StageFile("report", "html") IN
          IF ~ok \/ SaveRaises(fs, report)
          THEN /\ runs' = [runs EXCEPT ![r] = Fail(called, CompileError)]
               /\ fs' = fs
          ELSE /\ runs' = [runs EXCEPT ![r] =
                             [called EXCEPT !.pc = "end", !.success = TRUE,
                                 !.ended = IF run.kind = "main" THEN "exit 0" ELSE "returned"]]
               /\ fs' = Save(fs, report, "report")
    /\ UNCHANGED exeOK
    /\ UNCHANGED <<engineVars, fn>>

\* one pipeline.main process or user session (run 1) and a user session of
\* the web application (run 2) work in the same directory.
\* the file systems the orchestrators may be started in: an empty working
\* directory, one whose "output" is a regular file, and one that holds a
\* program at the path the child resolves its script argument to
AppInitialFS ==
    { EmptyFS,
      [EmptyFS EXCEPT ![OUTPUT_DIR] = File("not a directory")],
      [EmptyFS EXCEPT ![OUTPUT_DIR] = Dir, ![NestedOutput] = Dir,
                      ![NestedScript] = File(StaleCode)] }

AppInit ==
    /\ fs \in AppInitialFS
    /\ exeOK \in BOOLEAN
    /\ \E k \in Kinds : \E csv \in CsvArgs(k) :
          runs = [r \in Runs |-> IF r = 1 THEN NewRun(k, csv) ELSE NewRun("app", AbsoluteCsv)]
    /\ pc = "idle"
    /\ calls = 0
    /\ code_string = "none"
    /\ csv_path = <<>>
    /\ result = <<>>
    /\ child = NoChild
    /\ deadline = FALSE
    /\ launches = 0
    /\ fn = NoCall

AppNext ==
    \E r \in Runs :
        \/ Profile(r)
        \/ Plan(r)
        \/ Generate(r)
        \/ ExecuteEnter(r)
        \/ RaLaunch(r)
        \/ RaChildWrite(r)
        \/ RaChildSavesAsPrompted(r)
        \/ RaChildExit(r)
        \/ RaCollect(r)
        \/ RaTimeout(r)
        \/ Narrate(r)
        \/ Compile(r)

AppSpec == AppInit /\ [][AppNext]_vars

\* =================================================== the library functions
\* One call of a function of the pipeline's libraries, on any input of the
\* model; fn holds the function, its input and, once done, what it gave back.
libraryIdle == <<fs, exeOK, pc, calls, code_string, csv_path, result, child,
                 deadline, launches, runs>>

Asked(op, in) == [op |-> op, in |-> in, out |-> <<>>, done |-> FALSE]
Called(op, in, out) == [op |-> op, in |-> in, out |-> out, done |-> TRUE]
Pending(op) == fn.op = op /\ ~fn.done

\* analyze_data(profile_json) with providers that behave as o1, o2
CallAnalyzeData ==
    /\ Pending("analyze_data")
    /\ fn' = Called(fn.op, fn.in, analyze_data(fn.in))
    /\ UNCHANGED libraryIdle

\* narrate_results(analysis_results) with providers that behave as o1, o2
CallNarrateResults ==
    /\ Pending("narrate_results")
    /\ fn' = Called(fn.op, fn.in, narrate_results(fn.in))
    /\ UNCHANGED libraryIdle

\* ------------------------------------------------------- profiler.profile_csv
MAX_PROFILE_ROWS == 2000

\* a CSV file on disk: whether the path exists, whether the file has a
\* header line, how many lines follow it and how many of those are blank
CsvFiles ==
    {f \in [exists : BOOLEAN, header : BOOLEAN, lines : 0..MaxLines, blank : 0..MaxBlank] :
        /\ f.blank <= f.lines
        /\ ~f.exists => ~f.header
        /\ ~f.header => f.lines = 0}

\* a data frame: its number of rows (the model keeps no cell values)
Frame(n) == [rows |-> n]

\* pd.read_csv: the first line names the columns, blank lines are skipped,
\* every other line is one row
read_csv(file) == Frame(file.lines - file.blank)

\* df_full.sample(n=MAX_PROFILE_ROWS, random_state=42): n of the rows
Sample(df, n) == Frame(n)

FileNotFoundError == PyError("FileNotFoundError", <<"File not found: ", "data.csv">>)
EmptyDataError == PyError("EmptyDataError", <<"No columns to parse from file">>)

\* a profile whose row_count is taken from the profiled subset
RowCountOfSubset(df_full, df) == df.rows

\* total_rows = len(df_full); "row_count": total_rows
RowCountOf(df_full, df) == df_full.rows

\* profile_csv(csv_path), the fields of the profile that count rows
profile_csv(file) ==
    IF ~file.exists THEN Raises(FileNotFoundError)
    ELSE IF ~file.header THEN Raises(EmptyDataError)
    ELSE LET df_full == read_csv(file)
             total_rows == df_full.rows
             df == IF total_rows > MAX_PROFILE_ROWS
                   THEN Sample(df_full, MAX_PROFILE_ROWS)
                   ELSE df_full IN
         Returns([row_count |-> RowCountOf(df_full, df), profiled_rows |-> df.rows])

CallProfileCsv ==
    /\ Pending("profile_csv")
    /\ fn' = Called(fn.op, fn.in, profile_csv(fn.in))
    /\ UNCHANGED libraryIdle

\* ------------------------------------------------------ compiler.build_report
\* base64.b64encode(...).decode("utf-8") of the contents a chart file can have
B64(content) ==
    CASE content = "chart" -> "Y2hhcnQ="
      [] content = "old chart" -> "b2xkIGNoYXJ0"

OpenError == PyError("OSError", <<"[Errno] ", "chart">>)

\* an image put into the report as a link to the file
ImageByReference(f, image_path) ==
    IF f[image_path].kind # "file" THEN Raises(OpenError)
    ELSE Returns(<<"file://", image_path>>)

\* image_to_base64: open(image_path, "rb") raises unless the path is a
\* file; else the data URI of the file's bytes
image_to_base64(f, image_path) ==
    IF f[image_path].kind # "file" THEN Raises(OpenError)
    ELSE Returns(<<"data:image/png;base64,", B64(f[image_path].content)>>)

\* f"Chart {i + 1}" and f"Analysis result {i + 1}" for enumerate's index i
ChartTitle(i) == [label |-> "Chart", number |-> i + 1]
ChartDescription(i) == [label |-> "Analysis result", number |-> i + 1]

\* the charts list built by the loop over enumerate(chart_paths)
ChartsOf(f, chart_paths) ==
    [k \in 1..Len(chart_paths) |->
        [title |-> ChartTitle(k - 1),
         description |-> ChartDescription(k - 1),
         data_uri |-> image_to_base64(f, chart_paths[k]).val]]

\* the context handed to the template (without its timestamp)
ContextOf(narrative, charts, profile) ==
    [filename |-> profile.filename,
     row_count |-> profile.row_count,
     column_count |-> profile.column_count,
     executive_summary |-> narrative.executive_summary,
     key_findings |-> narrative.key_findings,
     recommendations |-> narrative.recommendations,
     charts |-> charts]

\* report_template.html rendered with the context: the header fields, the
\* narrative, and one figure per entry of charts, in order, captioned with
\* the entry's title and showing the entry's data_uri as the image source
RenderTemplate(context) ==
    [heading |-> <<context.filename, context.row_count, context.column_count>>,
     summary |-> context.executive_summary,
     findings |-> context.key_findings,
     recommendations |-> context.recommendations,
     figures |-> [k \in 1..Len(context.charts) |->
                    [caption |-> context.charts[k].title,
                     text |-> context.charts[k].description,
                     img_src |-> context.charts[k].data_uri]]]

REPORT_PATH == OUTPUT_DIR \o <<Nm("report", "html")>>

\* build_report(narrative, chart_paths, profile) in file system f: the
\* value returned or exception raised, and the file system left behind
build_report(f, narrative, chart_paths, profile) ==
    IF \E k \in 1..Len(chart_paths) : ~image_to_base64(f, chart_paths[k]).ok
    THEN [out |-> Raises(OpenError), fs |-> f]
    ELSE IF SaveRaises(f, REPORT_PATH)
    THEN [out |-> Raises(IOError),
          fs |-> IF MkdirRaises(f, OUTPUT_DIR) THEN f ELSE Mkdir(f, OUTPUT_DIR)]
    ELSE [out |-> Returns(REPORT_PATH),
          fs |-> Save(f, REPORT_PATH,
                      RenderTemplate(ContextOf(narrative, ChartsOf(f, chart_paths), profile)))]

\* the chart paths a caller may pass, and the rest of its arguments
ReportChartPaths == {CHARTS_DIR \o <<Nm("chart_1", "png")>>, CHARTS_DIR \o <<OldChart>>}
ReportNarrative ==
    [executive_summary |-> "summary", key_findings |-> <<"finding">>,
     recommendations |-> <<"recommendation">>]
ReportProfile == [filename |-> "data.csv", row_count |-> 3, column_count |-> 2]

\* the file systems build_report may be called in: no output directory,
\* "output" a regular file, and a chart directory holding two charts
ReportFS ==
    { EmptyFS,
      [EmptyFS EXCEPT ![OUTPUT_DIR] = File("not a directory")],
      [EmptyFS EXCEPT ![OUTPUT_DIR] = Dir, ![CHARTS_DIR] = Dir,
                      ![CHARTS_DIR \o <<Nm("chart_1", "png")>>] = File("chart"),
                      ![CHARTS_DIR \o <<OldChart>>] = File("old chart")] }

CallBuildReport ==
    /\ Pending("build_report")
    /\ LET b == build_report(fs, ReportNarrative, fn.in, ReportProfile) IN
       /\ fn' = Called(fn.op, fn.in, b.out)
       /\ fs' = b.fs
    /\ UNCHANGED <<exeOK, pc, calls, code_string, csv_path, result, child,
                   deadline, launches, runs>>

\* ------------------------------------------------- groq_client.generate_code
\* the chunks of a program text
CodeChunks == {NewLine, "plt.show()", "progA"}

\* the texts a code provider returns in the model
ProviderTexts ==
    {RawProgramOf(r) : r \in Runs}
        \cup {<<"progA", NewLine, "progB", "plt.show()", NewLine, "progB">>}

CodeOutcomes == UNION {ProviderOutcomes(t) : t \in ProviderTexts}

CallPostProcessCode ==
    /\ Pending("post_process_code")
    /\ fn' = Called(fn.op, fn.in, post_process_code(fn.in))
    /\ UNCHANGED libraryIdle

\* generate_code(data_profile, analysis_plan) with providers that behave as
\* o1 (Groq) and o2 (Cerebras)
CallGenerateCode ==
    /\ Pending("generate_code")
    /\ fn' = Called(fn.op, fn.in, generate_code(fn.in))
    /\ UNCHANGED libraryIdle

LibInit ==
    /\ exeOK = TRUE
    /\ pc = "idle"
    /\ calls = 0
    /\ code_string = "none"
    /\ csv_path = <<>>
    /\ result = <<>>
    /\ child = NoChild
    /\ deadline = FALSE
    /\ launches = 0
    /\ runs = <<>>
    /\ \/ \E o1 \in ProviderOutcomes(<<"plan">>), o2 \in ProviderOutcomes(<<"plan">>) :
             fn = Asked("analyze_data", <<o1, o2>>)
       \/ \E o1 \in ProviderOutcomes(<<"narrative">>), o2 \in ProviderOutcomes(<<"narrative">>) :
             fn = Asked("narrate_results", <<o1, o2>>)
       \/ \E file \in CsvFiles : fn = Asked("profile_csv", file)
       \/ \E cp \in SeqsUpTo(ReportChartPaths, MaxCharts) : fn = Asked("build_report", cp)
       \/ \E code \in SeqsUpTo(CodeChunks, MaxCode) : fn = Asked("post_process_code", code)
       \/ \E o1 \in CodeOutcomes, o2 \in CodeOutcomes : fn = Asked("generate_code", <<o1, o2>>)
    /\ IF fn.op = "build_report" THEN fs \in ReportFS ELSE fs = EmptyFS

LibNext ==
    \/ CallAnalyzeData
    \/ CallNarrateResults
    \/ CallProfileCsv
    \/ CallBuildReport
    \/ CallPostProcessCode
    \/ CallGenerateCode

LibSpec == LibInit /\ [][LibNext]_vars

\* ================================================================ properties
Returned == pc = "returned"

\* the child ended on its own within the timeout and its output was decoded:
\* process.stdout, process.stderr and process.returncode exist
Completed ==
    /\ Returned
    /\ child.state = "exited"
    /\ ~deadline
    /\ ~Undecodable(child.out)
    /\ ~Undecodable(child.err)

LaunchFailed == Returned /\ child.state = "none"
TimedOut == Returned /\ deadline

\* the JSON grammar: the whole text is one value between optional whitespace
IsValidJson(s) ==
    LET e == ValidFrom(s, SkipWs(s, 1)) IN e # 0 /\ SkipWs(s, e) = Len(s) + 1

\* a value's canonical form: its chunks without whitespace
Canon(s) == SelectSeq(s, LAMBDA c : ~IsSpace(c))

\* the .png files that are directly inside output/charts
PngInCharts ==
    {p \in DOMAIN fs : /\ Len(p) = 3
                       /\ SubSeq(p, 1, 2) = <<Nm("output", ""), Nm("charts", "")>>
                       /\ p[3].ext = "png"
                       /\ fs[p].kind = "file"}

Listed == {result.chart_paths[i] : i \in 1..Len(result.chart_paths)}

Contains(t, c) == \E i \in 1..Len(t) : t[i] = c

\* C1: run_analysis never lets an exception escape to its caller; every
\* failure mode ends in a returned result.
C1_NoExceptionEscapes == pc # "raised"

\* C2: for every outcome of the child, the returned chart_paths lists exactly
\* the *.png files directly inside output/charts, each once, the child has
\* ended when the scan is made, and no other extension is listed.
C2_ChartPathsAreThePngFiles ==
    /\ Returned => child.state # "running"
    /\ Returned => /\ Listed = PngInCharts
                   /\ Len(result.chart_paths) = Cardinality(PngInCharts)
                   /\ \A p \in Listed : Last(p).ext = "png"

\* C2 witness: a failed result that carries a chart, with a non-png file and
\* a nested .png present in the chart directory and left out.
C2_Witness ==
    /\ Returned
    /\ ~result.success
    /\ result.chart_paths # <<>>
    /\ fs[CHARTS_DIR \o <<Nm("notes", "txt")>>].kind = "file"
    /\ fs[CHARTS_DIR \o <<SubDir, InnerFile>>].kind = "file"

\* C3: the child executes the program file this call persisted: its script
\* path, resolved from its working directory, is output/analysis_script.py
\* holding code_string.
C3_ChildRunsPersistedProgram ==
    child.state # "none" => /\ child.script = ANALYSIS_SCRIPT
                            /\ child.prog = code_string

\* C4: exit status 0 and a stripped stdout that is a valid JSON value give
\* success = true, errors = null and results = the parsed value.
C4_ValidJsonIsSuccess ==
    (Completed /\ child.rc = 0 /\ IsValidJson(Strip(child.out)))
        => /\ result.success
           /\ result.errors = PyNone
           /\ result.results = PyJson(Canon(child.out))

\* C5: exit status 0 and a stdout that is not JSON give success = true,
\* errors = null and results = {"raw_output": stripped stdout}.
C5_NonJsonIsRawOutput ==
    (Completed /\ child.rc = 0 /\ ~IsValidJson(Strip(child.out)))
        => /\ result.success
           /\ result.errors = PyNone
           /\ result.results = PyRaw(Strip(child.out))

C7_TimeoutKillsAndFails ==
    /\ TimedOut => child.state \in {"killed", "exited"}
    /\ TimedOut => /\ ~result.success
                   /\ result.errors.tag = "str"
                   /\ Contains(result.errors.text, "timed out")

\* C7 witness: a returned call whose child was killed at the timeout.
C7_Witness == TimedOut /\ child.state = "killed" /\ ~result.success

\* C8: every call to run_analysis that has started eventually ends, whatever
\* the child does, and a call that has launched its child ends by returning.
C8_CallEnds ==
    (pc \in {"ensure", "write", "launch", "wait"})
        ~> (Returned \/ (pc = "raised" /\ child.state = "none"))

\* C8 witness: a call has returned although its child never ended on its own.
C8_Witness == Returned /\ child.state = "killed" /\ child.prog = StaleCode

\* C9: when the launch itself fails the result has success = false,
\* results = null, errors = the launch error's description, and the chart
\* scan has still been done.
C9_LaunchFailure ==
    LaunchFailed => /\ ~result.success
                    /\ result.results = PyNone
                    /\ result.errors = PyStr(LaunchErrorMsg)
                    /\ Listed = PngInCharts

\* C9 witness: a failed launch whose result lists a chart found on disk.
C9_Witness == LaunchFailed /\ ~exeOK /\ result.chart_paths # <<>>

\* C10: the returned record has the same seven fields on every path.
C10_SameShape ==
    Returned => DOMAIN result = {"success", "results", "stdout", "stderr",
                                 "return_code", "chart_paths", "errors"}

\* a parsed JSON value that is an object (a Python dict)
IsJsonObject(v) == v # <<>> /\ v[1] = "{}"

\* C11: every returned result has the four boundary fields: success a
\* boolean, results an object or null, chart_paths a list of strings and
\* errors a string or null.
C11_BoundaryShape ==
    Returned =>
        /\ {"success", "results", "chart_paths", "errors"} \subseteq DOMAIN result
        /\ result.success \in BOOLEAN
        /\ \/ result.results.tag = "None"
           \/ result.results.tag = "raw_output"
           \/ result.results.tag = "json" /\ IsJsonObject(result.results.text)
        /\ \A i \in 1..Len(result.chart_paths) : result.chart_paths[i] \in PathUniverse
        /\ result.errors.tag \in {"None", "str"}

\* the file names of the model in ascending order, and a name's place in it
NamesAscending ==
    <<Nm("chart_1", "png"), Nm("chart_2", "png"), Nm("inner", "png"), Nm("notes", "txt")>>

NameRank(n) == CHOOSE i \in 1..Len(NamesAscending) : NamesAscending[i] = n

\* C12: the returned chart_paths is in ascending order of file name, so the
\* same set of chart files always gives the same sequence.
C12_ChartPathsSortedByName ==
    Returned =>
        \A i, j \in 1..Len(result.chart_paths) :
            i < j => NameRank(Last(result.chart_paths[i]))
                         < NameRank(Last(result.chart_paths[j]))

\* C13: from an empty chart directory, a program that writes chart_1.png
\* into the chart directory and then raises before printing JSON yields
\* success = false, chart_paths = ["chart_1.png"] and results = null.
C13_ChartThenRaise ==
    (/\ Returned
     /\ calls = 1
     /\ code_string = ChartThenRaise
     /\ child.state = "exited"
     /\ ~deadline
     /\ \A n \in {OldChart, OldNotes, SubDir} : fs[CHARTS_DIR \o <<n>>].kind = "absent")
        => /\ ~result.success
           /\ result.results = PyNone
           /\ result.chart_paths = << <<Nm("chart_1", "png")>> >>

\* C14: once a call has persisted its program, output/analysis_script.py
\* holds exactly that call's code_string, whatever earlier calls wrote
\* there, and the call's result record starts from the fresh initial record:
\* a call whose child did not complete returns only what this call set.
C14_LatestProgramFreshResult ==
    /\ pc \in {"launch", "wait", "returned"} => fs[ANALYSIS_SCRIPT] = File(code_string)
    /\ pc \in {"launch", "wait"} => result = InitialResult
    /\ (Returned /\ ~Completed) => /\ DOMAIN result = DOMAIN InitialResult
                                   /\ ~result.success
                                   /\ result.results = PyNone

\* C14 witness: a second call has returned, not completed, and the program
\* file holds its code.
C14_Witness ==
    /\ Returned
    /\ calls = 2
    /\ ~Completed
    /\ code_string = "progB"
    /\ fs[ANALYSIS_SCRIPT] = File("progB")

\* everything below output/charts
ChartEntries ==
    {p \in PathUniverse : /\ Len(p) > Len(CHARTS_DIR)
                          /\ SubSeq(p, 1, Len(CHARTS_DIR)) = CHARTS_DIR}

\* C15: no step of run_analysis creates, deletes or modifies an entry of the
\* chart directory, and every .png file that is in the chart directory when
\* a call returns, whichever run left it there, is in that call's chart_paths.
C15_EngineKeepsCharts ==
    [][/\ (Call \/ EngineStep) => \A p \in ChartEntries : fs'[p] = fs[p]
       /\ (pc # "returned" /\ pc' = "returned")
              => \A p \in PngInCharts :
                    \E i \in 1..Len(result'.chart_paths) : result'.chart_paths[i] = p]_vars

\* C15 witness: a later call has returned; the chart left before the first
\* call and the chart written since are both on disk and both listed.
C15_Witness ==
    /\ Returned
    /\ calls = 2
    /\ fs[CHARTS_DIR \o <<OldChart>>] = File("old chart")
    /\ fs[CHARTS_DIR \o <<Nm("chart_1", "png")>>].kind = "file"
    /\ Listed = {CHARTS_DIR \o <<OldChart>>, CHARTS_DIR \o <<Nm("chart_1", "png")>>}

\* C19: within one call subprocess.run is invoked at most once, whether the
\* child times out, cannot be launched or exits with a non-zero status; a
\* call that returns has invoked it exactly once.
C19_LaunchedAtMostOnce ==
    /\ launches <= 1
    /\ Returned => launches = 1
    /\ child.state # "none" => launches = 1

\* C19 witness: a call whose child exited with a non-zero status has
\* returned after one launch.
C19_Witness == Completed /\ child.rc = 1 /\ ~result.success /\ launches = 1

\* a run is inside run_analysis, between the write of its program and its return
InRunAnalysis(run) == run.pc \in {"ra_launch", "ra_wait"}

IsSession(run) == run.kind = "app"

\* C16: concurrent sessions of the web application get isolated working
\* directories: no two of them are inside run_analysis with the same
\* directory, a session's persisted program is still its own when its child
\* is launched, and a session's chart_paths lists only charts its own child wrote.
C16_SessionsIsolated ==
    /\ \A r, s \in Runs :
          (r # s /\ IsSession(runs[r]) /\ IsSession(runs[s])
               /\ InRunAnalysis(runs[r]) /\ InRunAnalysis(runs[s]))
            => runs[r].workdir # runs[s].workdir
    /\ \A r \in Runs :
          (IsSession(runs[r]) /\ runs[r].pc = "ra_launch")
            => fs[runs[r].workdir \o <<Nm("analysis_script", "py")>>] = File(ProgramOf(r))
    /\ \A r \in Runs :
          (IsSession(runs[r]) /\ runs[r].executed # NotSet)
            => \A i \in 1..Len(runs[r].execution_result.chart_paths) :
                  fs[runs[r].execution_result.chart_paths[i]] = File(ChartBy(r))

StagesCalled(run) == [i \in 1..Len(run.log) |-> run.log[i].stage]

\* C17: in pipeline.main and in app.run_pipeline a result with success =
\* false ends the run: the run has stopped with a failure, and the stages
\* called are profile, plan, generate and execute, once each, so there was
\* no narrative, no report and no second generation or execution.
C17_FailureIsTerminal ==
    \A r \in Runs :
        (runs[r].executed # NotSet /\ ~runs[r].execution_result.success)
          => /\ runs[r].pc = "end"
             /\ runs[r].ended = (IF runs[r].kind = "main" THEN "exit 1" ELSE "returned")
             /\ ~runs[r].success
             /\ StagesCalled(runs[r]) = <<"profile", "plan", "generate", "execute">>

\* C17 witness: a pipeline.main run has exited with status 1 and a session
\* has returned its failure, both after a failed execution.
C17_Witness ==
    /\ runs[1].kind = "main"
    /\ runs[1].ended = "exit 1"
    /\ runs[1].executed # NotSet
    /\ runs[1].error = ExecuteError(runs[1].execution_result)
    /\ fs[StageFile("stage3_error", "json")].kind = "file"
    /\ runs[2].ended = "returned"
    /\ runs[2].executed # NotSet
    /\ ~runs[2].execution_result.success

\* C18: the stages of a run are called in the order profile, plan, generate,
\* execute, narrate, compile, each at most once; every stage after the first
\* is given the value the previous stage of the same run returned, and the
\* narrative is only asked for after an execution that reported success.
C18_StagesInOrder ==
    \A r \in Runs :
        LET log == runs[r].log IN
        /\ Len(log) <= Len(Stages)
        /\ \A i \in 1..Len(log) : log[i].stage = Stages[i]
        /\ \A i \in 2..Len(log) :
              \E k \in 1..Len(log[i].args) : log[i].args[k] = Made(Stages[i - 1], r)
        /\ Len(log) >= 5 => runs[r].execution_result.success

\* C18 witness: a run has gone through all six stages and ended well.
C18_Witness ==
    \E r \in Runs : /\ runs[r].pc = "end"
                     /\ runs[r].success
                     /\ StagesCalled(runs[r]) = Stages

ProvidersOf(stage) == IF stage = "generate" THEN CodeProviders ELSE GeminiProviders

\* the one error a gateway operation raises after all its providers failed
IsGenerationFailed(e) ==
    e.type = "ValueError" /\ e.text # <<>> /\ e.text[1] = "All APIs failed. Last error: "

\* C20: a gateway operation that raises has called every one of its
\* providers, and what it raises is the uniform generation-failed error.
C20_RaisesOnlyAfterAllProviders ==
    \A r \in Runs :
        runs[r].gw.raised
          => /\ runs[r].gw.called = ProvidersOf(runs[r].log[Len(runs[r].log)].stage)
             /\ IsGenerationFailed(runs[r].gw.err)

\* the call in fn went to the Groq fallback
FallbackCalled == Contains(fn.out.called, "Groq")

\* C21: analyze_data and narrate_results call the Groq fallback if and only
\* if the Gemini call raised an error whose message contains
\* "RESOURCE_EXHAUSTED" or "429", and then give back what Groq gave; any
\* other Gemini error propagates unchanged with no fallback call, and a
\* Gemini success is returned with no fallback call.
C21_FallbackIffQuota ==
    (fn.done /\ fn.op \in {"analyze_data", "narrate_results"}) =>
        LET gemini == fn.in[1]
            groq == fn.in[2]
            quota == /\ ~gemini.ok
                     /\ \/ Contains(gemini.err.text, "RESOURCE_EXHAUSTED")
                        \/ Contains(gemini.err.text, "429") IN
        /\ FallbackCalled <=> quota
        /\ fn.out.called[1] = "Gemini"
        /\ gemini.ok => (~fn.out.raised /\ fn.out.val = gemini.val)
        /\ (~gemini.ok /\ ~quota) => (fn.out.raised /\ fn.out.err = gemini.err)
        /\ quota => /\ fn.out.raised = ~groq.ok
                    /\ fn.out.val = groq.val
                    /\ fn.out.err = groq.err

\* C21 witness: Gemini raised a quota error and the plan came from Groq.
C21_Witness ==
    /\ fn.done
    /\ fn.op = "analyze_data"
    /\ fn.in[1].err.text = <<"429", " Too Many Requests">>
    /\ fn.out.called = <<"Gemini", "Groq">>
    /\ ~fn.out.raised
    /\ fn.out.val = <<"plan">>

\* the number of rows a CSV file holds: its lines after the header that are
\* not blank
TrueRows(file) == file.lines - file.blank

\* C22: every profile that profile_csv returns has row_count equal to the
\* number of rows of the file, profiled_rows equal to the smaller of
\* row_count and 2000, and so profiled_rows <= row_count.
C22_RowCounts ==
    (fn.done /\ fn.op = "profile_csv" /\ fn.out.ok) =>
        /\ fn.out.val.row_count = TrueRows(fn.in)
        /\ fn.out.val.profiled_rows =
              (IF fn.out.val.row_count < 2000 THEN fn.out.val.row_count ELSE 2000)
        /\ fn.out.val.profiled_rows <= fn.out.val.row_count

\* C22 witness: a file of 2001 rows is profiled on a 2000-row sample.
C22_Witness ==
    /\ fn.done
    /\ fn.op = "profile_csv"
    /\ fn.out.ok
    /\ fn.out.val.row_count = 2001
    /\ fn.out.val.profiled_rows = 2000

\* base64 decoding of the encoded texts
Base64Decode(t) ==
    CASE t = "Y2hhcnQ=" -> "chart"
      [] t = "b2xkIGNoYXJ0" -> "old chart"
      [] OTHER -> "undecodable"

Breaks(t) == {i \in 1..Len(t) : t[i] = "\n"}

BreakPos(t, j) ==
    IF j = 0 THEN 0
    ELSE IF j > Cardinality(Breaks(t)) THEN Len(t) + 1
    ELSE CHOOSE i \in Breaks(t) : Cardinality({b \in Breaks(t) : b < i}) = j - 1

LinesOf(t) ==
    [k \in 1..(Cardinality(Breaks(t)) + 1) |->
        SubSeq(t, BreakPos(t, k - 1) + 1, BreakPos(t, k) - 1)]

\* the lines of a text that do not contain plt.show()
LinesWithoutShow(t) == SelectSeq(LinesOf(t), LAMBDA l : ~Contains(l, "plt.show()"))

\* C25: no line of a program text returned by generate_code contains
\* "plt.show()"; post_process_code gives back the lines of its input that
\* do not contain it, unchanged and in their order (the empty text when
\* there is none), and applying it to its own output changes nothing.
C25_NoShowLines ==
    /\ (fn.done /\ fn.op = "generate_code" /\ ~fn.out.raised)
          => \A k \in 1..Len(LinesOf(fn.out.val)) :
                ~Contains(LinesOf(fn.out.val)[k], "plt.show()")
    /\ (fn.done /\ fn.op = "post_process_code")
          => /\ IF LinesWithoutShow(fn.in) = <<>>
                THEN fn.out = <<>>
                ELSE LinesOf(fn.out) = LinesWithoutShow(fn.in)
             /\ post_process_code(fn.out) = fn.out

\* C25 witness: a text of three lines whose middle line holds plt.show()
\* after other text has lost that line and kept the other two.
C25_Witness ==
    /\ fn.done
    /\ fn.op = "post_process_code"
    /\ fn.in = <<"progA", "\n", "progA", "plt.show()">>
    /\ fn.out = <<"progA">>

\* C24: generate_code calls Groq first and Cerebras second, each at most
\* once; Cerebras is called only when the Groq call raised; the first
\* provider that returns a text ends the call, and the program returned is
\* that provider's text after post_process_code.
C24_GroqThenCerebras ==
    (fn.done /\ fn.op = "generate_code") =>
        LET groq == fn.in[1]
            cerebras == fn.in[2]
            called == fn.out.called IN
        /\ called \in {<<"Groq">>, <<"Groq", "Cerebras">>}
        /\ Contains(called, "Cerebras") => ~groq.ok
        /\ groq.ok => /\ called = <<"Groq">>
                      /\ ~fn.out.raised
                      /\ fn.out.val = post_process_code(groq.val)
        /\ (Contains(called, "Cerebras") /\ cerebras.ok)
              => /\ ~fn.out.raised
                 /\ fn.out.val = post_process_code(cerebras.val)
        /\ ~fn.out.raised => (groq.ok \/ cerebras.ok)

\* C24 witness: Groq raised a rate-limit error and the program returned is
\* the text Cerebras gave, without its plt.show() line.
C24_Witness ==
    /\ fn.done
    /\ fn.op = "generate_code"
    /\ fn.in[1].err.text = <<"rate_limit", " reached">>
    /\ fn.in[2].ok
    /\ fn.in[2].val = <<"progA", "\n", "plt.show()">>
    /\ fn.out.called = <<"Groq", "Cerebras">>
    /\ fn.out.val = <<"progA">>

\* the message of an error with every chunk in lower case
Lowered(text) == [i \in 1..Len(text) |-> Lower(text[i])]

\* an error that advances to the next provider, the patterns taken as
\* substrings of the message as raised
AdvancesAsRaised(e) ==
    \/ e.type = "ImportError"
    \/ \E p \in {"RESOURCE_EXHAUSTED", "429", "quota", "rate_limit",
                  "not found", "invalid", "authentication"} : Contains(e.text, p)

\* an error that advances to the next provider: "RESOURCE_EXHAUSTED" and
\* "429" are looked for in the message as raised, the other patterns in the
\* lower-cased message
AdvancesLowered(e) ==
    \/ e.type = "ImportError"
    \/ \E p \in {"RESOURCE_EXHAUSTED", "429"} : Contains(e.text, p)
    \/ \E p \in {"quota", "rate_limit", "not found", "invalid", "authentication"} :
          Contains(Lowered(e.text), p)

AllFailedWith(e) ==
    [type |-> "ValueError", text |-> <<"All APIs failed. Last error: ">> \o e.text]

\* what is claimed of a finished generate_code call, for a given reading of
\* "advances": a provider error that advances leads to the next provider,
\* any other is re-raised at once, and the all-failed error is raised, with
\* the last provider's message, exactly when both providers were advanced past
ClassifiedBy(Advances(_)) ==
    (fn.done /\ fn.op = "generate_code") =>
        LET groq == fn.in[1]
            cerebras == fn.in[2]
            called == fn.out.called IN
        /\ (~groq.ok /\ Advances(groq.err)) => called = <<"Groq", "Cerebras">>
        /\ (~groq.ok /\ ~Advances(groq.err))
              => /\ called = <<"Groq">>
                 /\ fn.out.raised
                 /\ fn.out.err = groq.err
        /\ (called = <<"Groq", "Cerebras">> /\ ~cerebras.ok /\ ~Advances(cerebras.err))
              => (fn.out.raised /\ fn.out.err = cerebras.err)
        /\ (called = <<"Groq", "Cerebras">> /\ ~cerebras.ok /\ Advances(cerebras.err))
              => (fn.out.raised /\ fn.out.err = AllFailedWith(cerebras.err))
        /\ (fn.out.raised /\ fn.out.err.text[1] = "All APIs failed. Last error: ")
              => /\ ~groq.ok /\ Advances(groq.err)
                 /\ ~cerebras.ok /\ Advances(cerebras.err)

\* C30 as stated: generate_code classifies a provider error by substrings
\* of its message: an ImportError or a message containing
\* "RESOURCE_EXHAUSTED", "429", "quota", "rate_limit", "not found",
\* "invalid" or "authentication" advances to the next provider, any other
\* error is re-raised at once, and ValueError("All APIs failed...") with the
\* last provider's message is raised only when all providers were advanced past.
C30_ClassifiedBySubstring == ClassifiedBy(AdvancesAsRaised)

\* C30 amended: the same, with "quota", "rate_limit", "not found",
\* "invalid" and "authentication" looked for in the lower-cased message and
\* "RESOURCE_EXHAUSTED" and "429" in the message as raised.
C30_ClassifiedByLoweredSubstring == ClassifiedBy(AdvancesLowered)

\* C30 witness: Groq raised "Invalid API key", Cerebras raised "Quota
\* exceeded", and the call raised the all-failed error with the latter.
C30_Witness ==
    /\ fn.done
    /\ fn.op = "generate_code"
    /\ fn.in[1].err.text = <<"Invalid", " API key">>
    /\ fn.in[2].err.text = <<"Quota", " exceeded">>
    /\ fn.out.called = <<"Groq", "Cerebras">>
    /\ fn.out.raised
    /\ fn.out.err = AllFailedWith(fn.in[2].err)

\* C26: in every result run_analysis returns, success is true if and only
\* if errors is null.
C26_SuccessIffNoErrors ==
    Returned => (result.success <=> result.errors = PyNone)

\* the charts on disk that a program saved under the prompt's rule
PromptedCharts ==
    {p \in PathUniverse : fs[p] = [kind |-> "file", content |-> "chart saved as the prompt says"]}

\* C27: a chart that a generated program saves under the prompt's rule,
\* "output/charts/chart_N.png" named from the working directory the engine
\* launched it in, is in the directory run_analysis scans, output/charts.
C27_PromptedChartsAreScanned ==
    \A p \in PromptedCharts :
        SubSeq(p, 1, Len(p) - 1) = <<Nm("output", ""), Nm("charts", "")>>

\* C28: the dataset path the child gets as its positional argument names,
\* from the child's working directory, the file the caller passed to
\* run_analysis, which is the file the orchestrator checked and profiled,
\* whether the caller gave it relative to its own directory or absolute.
C28_ChildReadsCallersDataset ==
    \A r \in Runs :
        runs[r].child.state # "none" => runs[r].child.dataset = runs[r].data_file

\* the file pipeline.main writes after the j-th stage, and what it holds
StageOutputPath(j) ==
    <<Nm("output", "")>> \o
    << CASE j = 1 -> Nm("stage0_profile", "json")
         [] j = 2 -> Nm("stage1_analysis_plan", "json")
         [] j = 3 -> Nm("stage2_analysis_script", "py")
         [] j = 4 -> Nm("stage3_results", "json")
         [] OTHER -> Nm("stage4_narrative", "json") >>
StageOutput(run, j) ==
    CASE j = 1 -> "profile"
      [] j = 2 -> "plan"
      [] j = 3 -> Flatten(run.code_text)
      [] j = 4 -> "results"
      [] OTHER -> "narrative"
EarlierOutputsWritten(f, run, k) ==
    \A j \in 1..(k - 1) :
        j <= 4 => f[StageOutputPath(j)] = [kind |-> "file", content |-> StageOutput(run, j)]
StoppedInFailure(run) == run.kind = "main" /\ run.pc = "end" /\ run.ended # "exit 0"

\* C29: in a pipeline.main run, when stage k is started the outputs of the
\* stages before it are already in the output directory (stage0_profile.json,
\* stage1_analysis_plan.json, stage2_analysis_script.py, stage3_results.json),
\* and a run that stops at stage k, by a raised error or by a failed
\* execution (which leaves stage3_error.json), still has them and exits
\* with status 1.
C29_EarlierStagesSavedOnFailure ==
    [][\A r \in Runs :
         /\ (runs[r].kind = "main" /\ Len(runs'[r].log) = Len(runs[r].log) + 1)
                => EarlierOutputsWritten(fs, runs[r], Len(runs'[r].log))
         /\ StoppedInFailure(runs'[r])
                => /\ runs'[r].ended = "exit 1"
                   /\ EarlierOutputsWritten(fs', runs'[r], Len(runs'[r].log))
                   /\ runs'[r].error.type = "execution"
                         => fs'[<<Nm("output", ""), Nm("stage3_error", "json")>>]
                              = [kind |-> "file", content |-> "error"]]_vars

\* a pipeline.main run stopped at the narrative stage, four stages completed
C29_Witness ==
    \E r \in Runs :
        /\ StoppedInFailure(runs[r])
        /\ Len(runs[r].log) = 5
        /\ runs[r].log[5].stage = "narrate"
        /\ runs[r].ended = "exit 1"
        /\ EarlierOutputsWritten(fs, runs[r], 5)

====
